---- MODULE Spec2Model ----
(***************************************************************************)
(* torch_maml/maml.py: NaiveMAML.forward and GradientCheckpointMAML.forward *)
(* as one state machine.  A caller runs, on one model and one input         *)
(* sequence,                                                                *)
(*   call 1: NaiveMAML.forward(inputs)                                      *)
(*   call 2: GradientCheckpointMAML.forward(inputs), then backward          *)
(*   call 3: forward(A) on the engine chosen by resumeEngine                *)
(*   call 4: forward(B, optimizer_state = state of call 3) on an engine of  *)
(*           the same class whose model is the model returned by call 3,    *)
(* where inputs = A + B.  A tensor is a record [id, val]: id is the         *)
(* object's identity, val its contents.  A model is the sequence            *)
(* chain(model.parameters(), model.buffers()).                              *)
(***************************************************************************)
EXTENDS Integers, Sequences, FiniteSets, TLC

\* ---------------------------------------------------------------- bounds
MaxInputs == 3
MaxCheckpointSteps == 3
ValMod == 5

\* float32 holds every integer up to 2^24 exactly; step_index is a float32 tensor
Float32ExactMax == 16777216

\* number of entries of model.parameters() and of model.buffers()
NParameters == 2
NBuffers == 1

\* ------------------------------------------------------------ primitives
Min(a, b) == IF a < b THEN a ELSE b

Max(a, b) == IF a < b THEN b ELSE a

CeilDiv(a, b) == (a + b - 1) \div b

RECURSIVE SumSeq(_)
SumSeq(s) == IF s = <<>> THEN 0 ELSE s[1] + SumSeq(Tail(s))

Vals(ts) == [i \in DOMAIN ts |-> ts[i].val]

Ids(ts) == {ts[i].id : i \in DOMAIN ts}

Tensor(i, v) == [id |-> i, val |-> v]

\* the items an input sequence is made of
Data == {0, 1}

\* every sequence over Data of length 0..n
RECURSIVE SeqsUpTo(_)
SeqsUpTo(n) ==
  IF n = 0 THEN {<<>>}
  ELSE LET shorter == SeqsUpTo(n - 1)
       IN shorter \cup {Append(s, d) : s \in {t \in shorter : Len(t) = n - 1}, d \in Data}

\* ------------------------------------------------- the model's collections
Parameters(model) == SubSeq(model, 1, NParameters)

Buffers(model) == SubSeq(model, NParameters + 1, Len(model))

Chain(a, b) == a \o b

\* get_parameters(model): the selector returns the tensors at fixed positions
get_parameters(sel, model) == [k \in 1..Len(sel) |-> model[sel[k]]]

\* the selectors a caller may pass; <<1, 2>> is nn.Module.parameters
Selectors == {<<1, 2>>, <<1>>, <<2>>}

\* ------------------------------------------------ external collaborators
\* loss_function(model, input): an opaque callable, pure, reading every tensor
loss_function(model, input) ==
  (SumSeq([j \in DOMAIN model |-> j * model[j].val]) + 2 * input + 1) % ValMod

\* optimizer.get_initial_state(self, **opt_kwargs)
get_initial_state(nextId) == <<Tensor(nextId + 1, 0), Tensor(nextId + 2, 0)>>

\* dict(zip(keys, values)): keyed by the identity of the key tensors
ZipDict(keys, values) ==
  LET n == Min(Len(keys), Len(values))
  IN [i \in {keys[k].id : k \in 1..n} |->
        values[CHOOSE k \in 1..n : keys[k].id = i /\ \A l \in (k + 1)..n : keys[l].id # i]]

\* copy_and_replace(model, replacements, frozen): replaced tensors are
\* substituted, frozen ones shared by reference, every other one copied
copy_and_replace(model, replacements, frozen, nextId) ==
  [j \in DOMAIN model |->
     IF model[j].id \in DOMAIN replacements THEN replacements[model[j].id]
     ELSE IF model[j].id \in Ids(frozen) THEN model[j]
     ELSE Tensor(nextId + j, model[j].val)]

\* optimizer.step(state, model, loss, parameters, detach): pure; do_not_copy is
\* the set of tensors the enclosing do_not_copy(...) scope protects
OptimizerStep(state, model, loss, parameters, do_not_copy, nextId) ==
  LET np == Len(parameters)
      new_parameters == [k \in 1..np |->
         Tensor(nextId + k, (2 * parameters[k].val + loss + state[1].val + k) % ValMod)]
      new_state == <<Tensor(nextId + np + 1, (state[1].val + loss) % ValMod),
                     Tensor(nextId + np + 2, (state[2].val + 1) % ValMod)>>
  IN [optimizer_state |-> new_state,
      updated_model |-> copy_and_replace(model, ZipDict(parameters, new_parameters),
                                         do_not_copy, nextId + np + 2)]

\* the ids one optimizer.step may allocate: new parameters, new state, copies
StepIds == NParameters + 2 + NParameters + NBuffers

\* the ids one copy_and_replace may allocate
CopyIds == NParameters + NBuffers

\* ------------------------------------------------------------------ state
VARIABLES
  original,               \* the caller's model, as it was before any call
  all_inputs,             \* the caller's input sequence
  checkpoint_steps,       \* GradientCheckpointMAML.checkpoint_steps
  selector,               \* the get_parameters the engines are built with
  optimizer_state_arg,    \* forward's optimizer_state argument: None or a state
  resumeEngine,           \* the engine class of calls 3 and 4
  splitAt,                \* len(A) of calls 3 and 4
  call,                   \* the call in progress
  pc,                     \* the position inside it
  self_model,             \* self.model of the engine of this call
  inputs,                 \* forward's inputs
  optimizer_state,        \* forward's (NaiveMAML) / _maml_internal's optimizer_state
  updated_model,          \* forward's (NaiveMAML) / _maml_internal's updated_model
  loss_history,           \* forward's loss_history
  consumed,               \* how many items `for input in inputs` has yielded
  parameters_to_copy,
  parameters_not_to_copy,
  step_index,             \* the step_index tensor's value, where control is
  steps,                  \* _maml_internal's steps argument
  iterations,             \* how many iterations `for _ in range(int(steps))` has run
  is_first_pass,
  inner_losses,
  boundary,               \* forward's trainable_parameters_and_optimizer_state
  chunk_start,            \* the next value of `for chunk_start in range(...)`
  saved,                  \* what checkpoint() saved for backward, one entry per chunk
  grad_enabled,           \* torch.is_grad_enabled()
  results,                \* what each call returned or raised
  trace,                  \* the collaborator calls of the call in progress, in order
  nextId,                 \* identities below this are taken
  retained_boundaries,    \* sets of checkpoint inputs kept for backward
  retained_intermediates, \* per-step autograd graphs alive
  peak                    \* the largest retained total of the call in progress

config == <<original, all_inputs, checkpoint_steps, selector, optimizer_state_arg,
            resumeEngine, splitAt>>

frame == <<self_model, inputs, optimizer_state, updated_model, loss_history, consumed,
           parameters_to_copy, parameters_not_to_copy, step_index, steps, iterations,
           is_first_pass, inner_losses, boundary, chunk_start, saved, grad_enabled>>

memory == <<retained_boundaries, retained_intermediates, peak>>

vars == <<config, call, pc, frame, results, trace, nextId, memory>>

None == [isNone |-> TRUE, value |-> <<>>]

Some(state) == [isNone |-> FALSE, value |-> state]

NoResult == [status |-> "none", model |-> <<>>, loss_history |-> <<>>, optimizer_state |-> <<>>]

Raised(error) == [status |-> error, model |-> <<>>, loss_history |-> <<>>, optimizer_state |-> <<>>]

\* Result = namedtuple('Result', ['model', 'loss_history', 'optimizer_state'])
Result(model, history, state) ==
  [status |-> "ok", model |-> model, loss_history |-> history, optimizer_state |-> state]

Event(op, pass, chunk, idx, detach, val) ==
  [op |-> op, pass |-> pass, chunk |-> chunk, idx |-> idx, detach |-> detach, val |-> val]

\* ------------------------------------------------------------ the caller
EngineOf(c) == IF c = 1 THEN "naive" ELSE IF c = 2 THEN "checkpoint" ELSE resumeEngine

InputsOf(c) ==
  IF c = 3 THEN SubSeq(all_inputs, 1, splitAt)
  ELSE IF c = 4 THEN SubSeq(all_inputs, splitAt + 1, Len(all_inputs))
  ELSE all_inputs

ModelOf(c) == IF c = 4 THEN results[3].model ELSE original

StateArgOf(c) == IF c = 4 THEN Some(results[3].optimizer_state) ELSE optimizer_state_arg

\* the caller goes on to the next call; a resumed run needs two non-empty halves
\* and a first half that returned
LastCall(c, status) ==
  \/ c = 4
  \/ c = 2 /\ Len(all_inputs) < 2
  \/ c = 3 /\ status # "ok"

Return(result) ==
  /\ results' = [results EXCEPT ![call] = result]
  /\ IF LastCall(call, result.status)
       THEN call' = call /\ pc' = "done"
       ELSE call' = call + 1 /\ pc' = "call"

Init ==
  /\ original = [j \in 1..(NParameters + NBuffers) |-> Tensor(j, j % ValMod)]
  /\ all_inputs \in SeqsUpTo(MaxInputs)
  /\ checkpoint_steps \in 1..MaxCheckpointSteps
  /\ selector \in Selectors
  /\ optimizer_state_arg \in
       {None, Some(<<Tensor(NParameters + NBuffers + 1, 1), Tensor(NParameters + NBuffers + 2, 2 % ValMod)>>)}
  /\ resumeEngine \in {"naive", "checkpoint"}
  /\ splitAt \in 1..Max(1, Len(all_inputs) - 1)
  /\ call = 1
  /\ pc = "call"
  /\ self_model = original
  /\ inputs = <<>>
  /\ optimizer_state = <<>>
  /\ updated_model = <<>>
  /\ loss_history = <<>>
  /\ consumed = 0
  /\ parameters_to_copy = <<>>
  /\ parameters_not_to_copy = <<>>
  /\ step_index = 0
  /\ steps = 0
  /\ iterations = 0
  /\ is_first_pass = FALSE
  /\ inner_losses = <<>>
  /\ boundary = <<>>
  /\ chunk_start = 0
  /\ saved = <<>>
  /\ grad_enabled = TRUE
  /\ results = [c \in 1..4 |-> NoResult]
  /\ trace = <<>>
  /\ nextId = NParameters + NBuffers + 2
  /\ retained_boundaries = 0
  /\ retained_intermediates = 0
  /\ peak = 0

\* ------------------------------------------------- NaiveMAML.forward
\* mutant: no assertion
AssertNothing(ins) == TRUE

\* assert len(inputs) > 0, "Non-empty inputs are required"
AssertNonEmpty(ins) == Len(ins) > 0

\* mutant: the optimizer_state argument is ignored
AlwaysInitialState(arg, id) == get_initial_state(id)

\* if optimizer_state is None: optimizer_state = self.optimizer.get_initial_state(...)
InitialOptimizerState(arg, id) == IF arg.isNone THEN get_initial_state(id) ELSE arg.value

InitialStateTrace(arg) ==
  IF arg.isNone THEN <<Event("get_initial_state", "forward", 0, 0, FALSE, 0)>> ELSE <<>>

\* lines 44-50
NaiveForward ==
  /\ pc = "call"
  /\ EngineOf(call) = "naive"
  /\ IF ~AssertNonEmpty(InputsOf(call))
       THEN /\ Return(Raised("AssertionError"))
            /\ trace' = <<>>
            /\ UNCHANGED <<config, frame, nextId, memory>>
       ELSE /\ self_model' = ModelOf(call)
            /\ inputs' = InputsOf(call)
            /\ optimizer_state' = InitialOptimizerState(StateArgOf(call), nextId)
            /\ updated_model' = ModelOf(call)
            /\ loss_history' = <<>>
            /\ consumed' = 0
            /\ trace' = InitialStateTrace(StateArgOf(call))
            /\ nextId' = nextId + 2
            /\ pc' = "naive_loop"
            /\ retained_boundaries' = 0
            /\ retained_intermediates' = 0
            /\ peak' = 0
            /\ UNCHANGED <<config, call, results, parameters_to_copy, parameters_not_to_copy,
                           step_index, steps, iterations, is_first_pass, inner_losses,
                           boundary, chunk_start, saved, grad_enabled>>

\* lines 51-55: one iteration of `for input in inputs`
NaiveStep ==
  /\ pc = "naive_loop"
  /\ consumed < Len(inputs)
  /\ LET input == inputs[consumed + 1]
         loss == loss_function(updated_model, input)
         stepped == OptimizerStep(optimizer_state, updated_model, loss,
                                  get_parameters(selector, updated_model), <<>>, nextId)
     IN /\ loss_history' = Append(loss_history, loss)
        /\ optimizer_state' = stepped.optimizer_state
        /\ updated_model' = stepped.updated_model
        /\ trace' = trace \o <<Event("loss", "naive", 0, consumed, FALSE, loss),
                               Event("step", "naive", 0, consumed, FALSE, loss)>>
  /\ consumed' = consumed + 1
  /\ nextId' = nextId + StepIds
  /\ retained_intermediates' = retained_intermediates + 1
  /\ peak' = Max(peak, retained_intermediates + 1)
  /\ UNCHANGED <<config, call, pc, results, self_model, inputs, parameters_to_copy,
                 parameters_not_to_copy, step_index, steps, iterations, is_first_pass,
                 inner_losses, boundary, chunk_start, saved, grad_enabled,
                 retained_boundaries>>

\* line 57
NaiveReturn ==
  /\ pc = "naive_loop"
  /\ consumed = Len(inputs)
  /\ Return(Result(updated_model, loss_history, optimizer_state))
  /\ UNCHANGED <<config, frame, trace, nextId, memory>>

\* ---------------------------------------- GradientCheckpointMAML.forward
\* mutant: the buffers are left out of the chain
ParametersOnlyNotToCopy(model, to_copy) ==
  SelectSeq(Parameters(model), LAMBDA param : param.id \notin Ids(to_copy))

\* lines 94-95: every parameter and buffer of the model that is not selected
ParametersNotToCopy(model, to_copy) ==
  SelectSeq(Chain(Parameters(model), Buffers(model)), LAMBDA param : param.id \notin Ids(to_copy))

\* line 124 and line 121: list(chain(parameters, optimizer_state))
Flatten(parameters, state) == Chain(parameters, state)

\* lines 100, 133: trainable_parameters_and_state[:len(parameters_to_copy)]
TrainableOf(flat, np) == SubSeq(flat, 1, Min(np, Len(flat)))

\* mutant: the slice starts one entry early
StateOfShifted(flat, np) == SubSeq(flat, np, Len(flat) - 1)

\* lines 101, 134-136: OptimizerState(*trainable_parameters_and_state[len(parameters_to_copy):])
StateOf(flat, np) == SubSeq(flat, np + 1, Len(flat))

\* mutant: the last chunk is not cut to the remaining inputs
ChunkStepsNoMin(ck, n, start) == ck

\* line 128
ChunkSteps(ck, n, start) == Min(ck, n - start)

\* mutant: the test is inverted
IsFirstPassInverted(grad) == grad

\* line 105: is_first_pass = not torch.is_grad_enabled()
IsFirstPass(grad) == ~grad

\* mutant: the gradient mode is read again where the flag is used
DetachRecomputed(first_pass, grad_in_scope) == ~grad_in_scope

\* line 117: detach=is_first_pass, read inside `with torch.enable_grad()`
DetachFlag(first_pass, grad_in_scope) == first_pass

\* mutant: the step index is not advanced
StepIndexKept(index) == index

\* line 120: step_index = step_index + 1 on a float32 tensor
NextStepIndex(index) == IF index < Float32ExactMax THEN index + 1 ELSE index

\* line 121: torch.stack(inner_losses)
Stack(losses) == losses

\* mutant: the stacked losses are appended as one entry
SplitWhole(stacked) == <<stacked>>

\* line 131: inner_losses.split(1): pieces of one entry each
Split1(stacked) == [i \in 1..Len(stacked) |-> <<stacked[i]>>]

\* mutant: the new pieces go in front
ExtendHistoryInFront(history, pieces) == pieces \o history

\* line 131: loss_history.extend(pieces)
ExtendHistory(history, pieces) == history \o pieces

\* the pass a chunk function invocation is, by the gradient mode it is entered in
PassOf(grad) == IF grad THEN "recompute" ELSE "record"

\* lines 88-95 and 123-126
CheckpointForward ==
  /\ pc = "call"
  /\ EngineOf(call) = "checkpoint"
  /\ IF ~AssertNonEmpty(InputsOf(call))
       THEN /\ Return(Raised("AssertionError"))
            /\ trace' = <<>>
            /\ UNCHANGED <<config, frame, nextId, memory>>
       ELSE LET state == InitialOptimizerState(StateArgOf(call), nextId)
                to_copy == get_parameters(selector, ModelOf(call))
            IN /\ self_model' = ModelOf(call)
               /\ inputs' = InputsOf(call)
               /\ optimizer_state' = state
               /\ parameters_to_copy' = to_copy
               /\ parameters_not_to_copy' = ParametersNotToCopy(ModelOf(call), to_copy)
               /\ step_index' = 0
               /\ boundary' = Flatten(to_copy, state)
               /\ loss_history' = <<>>
               /\ chunk_start' = 0
               /\ saved' = <<>>
               /\ trace' = InitialStateTrace(StateArgOf(call))
               /\ nextId' = nextId + 2
               /\ pc' = "chunk_loop"
               /\ retained_boundaries' = 0
               /\ retained_intermediates' = 0
               /\ peak' = 0
               /\ UNCHANGED <<config, call, results, updated_model, consumed, steps,
                              iterations, is_first_pass, inner_losses, grad_enabled>>

\* lines 100-111: the head of _maml_internal, entered in gradient mode `grad`
EnterInternal(index, nsteps, flat, grad, chunk) ==
  LET np == Len(parameters_to_copy)
      trainable_parameters == TrainableOf(flat, np)
  IN /\ step_index' = index
     /\ steps' = nsteps
     /\ optimizer_state' = StateOf(flat, np)
     /\ updated_model' = copy_and_replace(self_model,
                            ZipDict(parameters_to_copy, trainable_parameters),
                            parameters_not_to_copy, nextId)
     /\ nextId' = nextId + CopyIds
     /\ is_first_pass' = IsFirstPass(grad)
     /\ inner_losses' = <<>>
     /\ iterations' = 0
     /\ grad_enabled' = grad
     /\ trace' = trace \o <<Event("enter", PassOf(grad), chunk, index, FALSE, nsteps),
                            Event("copy_and_replace", PassOf(grad), chunk, index, FALSE, 0)>>
     /\ pc' = "internal"

\* lines 127-130: one iteration of `for chunk_start in range(...)` up to the entry
\* of the chunk function; checkpoint() keeps its arguments for backward and runs
\* the function with gradients disabled
CheckpointCall ==
  /\ pc = "chunk_loop"
  /\ chunk_start < Len(inputs)
  /\ LET nsteps == ChunkSteps(checkpoint_steps, Len(inputs), chunk_start)
     IN /\ saved' = Append(saved, [step_index |-> step_index, steps |-> nsteps,
                                   boundary |-> boundary])
        /\ EnterInternal(step_index, nsteps, boundary, FALSE, Len(saved) + 1)
  /\ chunk_start' = chunk_start + checkpoint_steps
  /\ retained_boundaries' = retained_boundaries + 1
  /\ peak' = Max(peak, retained_boundaries + 1 + retained_intermediates)
  /\ UNCHANGED <<config, call, results, self_model, inputs, loss_history, consumed,
                 parameters_to_copy, parameters_not_to_copy, boundary,
                 retained_intermediates>>

\* the chunk the chunk function is running for
CurrentChunk == IF grad_enabled THEN Len(saved) + 1 ELSE Len(saved)

\* lines 112-120: one iteration of `for _ in range(int(steps))`, in either pass
InternalStep ==
  /\ pc = "internal"
  /\ iterations < steps
  /\ IF step_index >= Len(inputs)
       THEN \* inputs[int(step_index)] raises IndexError, which ends the call
            /\ results' = [results EXCEPT ![call] = Raised("IndexError")]
            /\ IF LastCall(call, "IndexError")
                 THEN call' = call /\ pc' = "done"
                 ELSE call' = call + 1 /\ pc' = "call"
            /\ grad_enabled' = TRUE
            /\ UNCHANGED <<config, self_model, inputs, optimizer_state, updated_model,
                           loss_history, consumed, parameters_to_copy,
                           parameters_not_to_copy, step_index, steps, iterations,
                           is_first_pass, inner_losses, boundary, chunk_start, saved,
                           trace, nextId, memory>>
       ELSE LET loss == loss_function(updated_model, inputs[step_index + 1])
                detach == DetachFlag(is_first_pass, TRUE)
                stepped == OptimizerStep(optimizer_state, updated_model, loss,
                                         get_parameters(selector, updated_model),
                                         parameters_not_to_copy, nextId)
            IN /\ inner_losses' = Append(inner_losses, loss)
               /\ optimizer_state' = stepped.optimizer_state
               /\ updated_model' = stepped.updated_model
               /\ trace' = trace \o
                    <<Event("loss", PassOf(grad_enabled), CurrentChunk, step_index, detach, loss),
                      Event("step", PassOf(grad_enabled), CurrentChunk, step_index, detach, loss)>>
               /\ step_index' = NextStepIndex(step_index)
               /\ iterations' = iterations + 1
               /\ nextId' = nextId + StepIds
               /\ retained_intermediates' = retained_intermediates + 1
               /\ peak' = Max(peak, retained_boundaries + retained_intermediates + 1)
               /\ UNCHANGED <<config, call, pc, results, self_model, inputs, loss_history,
                              consumed, parameters_to_copy, parameters_not_to_copy, steps,
                              is_first_pass, boundary, chunk_start, saved, grad_enabled,
                              retained_boundaries>>

\* the steps of the running invocation whose outputs keep their graph history
LinkedSteps ==
  Cardinality({i \in DOMAIN trace :
     /\ trace[i].op = "step"
     /\ trace[i].pass = PassOf(grad_enabled)
     /\ trace[i].chunk = CurrentChunk
     /\ ~trace[i].detach})

\* line 121 in the recording pass, then lines 129 (the unpacking) and 131; what
\* the chunk returns carries no graph history unless a step was not detached
ChunkRecorded ==
  /\ pc = "internal"
  /\ iterations >= steps
  /\ ~grad_enabled
  /\ boundary' = Flatten(get_parameters(selector, updated_model), optimizer_state)
  /\ loss_history' = ExtendHistory(loss_history, Split1(Stack(inner_losses)))
  /\ grad_enabled' = TRUE
  /\ retained_intermediates' = retained_intermediates - (iterations - LinkedSteps)
  /\ pc' = "chunk_loop"
  /\ UNCHANGED <<config, call, results, self_model, inputs, optimizer_state, updated_model,
                 consumed, parameters_to_copy, parameters_not_to_copy, step_index, steps,
                 iterations, is_first_pass, inner_losses, chunk_start, saved, trace,
                 nextId, retained_boundaries, peak>>

\* lines 133-139
CheckpointFinal ==
  /\ pc = "chunk_loop"
  /\ chunk_start >= Len(inputs)
  /\ LET np == Len(parameters_to_copy)
         final_trainable_parameters == TrainableOf(boundary, np)
         final_optimizer_state == StateOf(boundary, np)
         final_model == copy_and_replace(self_model,
                           ZipDict(parameters_to_copy, final_trainable_parameters),
                           parameters_not_to_copy, nextId)
     IN /\ results' = [results EXCEPT
                         ![call] = Result(final_model, loss_history, final_optimizer_state)]
        /\ trace' = Append(trace, Event("copy_and_replace", "forward", 0, step_index, FALSE, 0))
  /\ nextId' = nextId + CopyIds
  /\ pc' = "backward"
  /\ UNCHANGED <<config, call, frame, memory>>

\* backward reaches the latest chunk not yet recomputed: checkpoint() runs the
\* chunk function again on the arguments it kept, with gradients enabled
RecomputeCall ==
  /\ pc = "backward"
  /\ saved # <<>>
  /\ LET kept == saved[Len(saved)]
     IN EnterInternal(kept.step_index, kept.steps, kept.boundary, TRUE, Len(saved))
  /\ saved' = SubSeq(saved, 1, Len(saved) - 1)
  /\ UNCHANGED <<config, call, results, self_model, inputs, loss_history, consumed,
                 parameters_to_copy, parameters_not_to_copy, boundary, chunk_start, memory>>

\* line 121 in the recompute pass; backward then runs through the chunk's graph
\* and drops it together with the arguments kept for the chunk
ChunkRecomputed ==
  /\ pc = "internal"
  /\ iterations >= steps
  /\ grad_enabled
  /\ retained_intermediates' = retained_intermediates - iterations
  /\ retained_boundaries' = retained_boundaries - 1
  /\ pc' = "backward"
  /\ UNCHANGED <<config, call, frame, results, trace, nextId, peak>>

\* backward has run through every chunk
BackwardDone ==
  /\ pc = "backward"
  /\ saved = <<>>
  /\ IF LastCall(call, results[call].status)
       THEN call' = call /\ pc' = "done"
       ELSE call' = call + 1 /\ pc' = "call"
  /\ UNCHANGED <<config, frame, results, trace, nextId, memory>>

Next ==
  \/ NaiveForward
  \/ NaiveStep
  \/ NaiveReturn
  \/ CheckpointForward
  \/ CheckpointCall
  \/ InternalStep
  \/ ChunkRecorded
  \/ CheckpointFinal
  \/ RecomputeCall
  \/ ChunkRecomputed
  \/ BackwardDone

Spec == Init /\ [][Next]_vars

\* ------------------------------------------------------------ properties
Finished(c) == results[c].status # "none"

Selected(model) == Vals(get_parameters(selector, model))

\* a loss history's values: NaiveMAML appends scalars, GradientCheckpointMAML
\* one-entry pieces of the stacked losses
HistoryValues(c) ==
  IF EngineOf(c) = "naive" THEN results[c].loss_history
  ELSE [i \in 1..Len(results[c].loss_history) |-> results[c].loss_history[i][1]]

\* the call of the whole input sequence made on the engine class of calls 3 and 4
FullCall == IF resumeEngine = "naive" THEN 1 ELSE 2

\* C1: on the same model, optimizer, loss function and non-empty inputs,
\* NaiveMAML.forward and GradientCheckpointMAML.forward both return, with the
\* same values of the selected parameters and the same loss values in the same
\* order, whatever checkpoint_steps is.
NaiveCheckpointEquivalent ==
  (Finished(2) /\ Len(all_inputs) >= 1) =>
     /\ results[1].status = "ok"
     /\ results[2].status = "ok"
     /\ Selected(results[1].model) = Selected(results[2].model)
     /\ HistoryValues(1) = HistoryValues(2)

NaiveCheckpointEquivalentWitness ==
  /\ pc = "done"
  /\ Len(all_inputs) = 3
  /\ checkpoint_steps = 2
  /\ results[2].status = "ok"
  /\ Selected(results[2].model) # Selected(original)
  /\ Selected(results[1].model) = Selected(results[2].model)
  /\ \E i, j \in 1..3 : HistoryValues(2)[i] # HistoryValues(2)[j]

\* C2: a call on N >= 1 inputs returns a loss history of exactly N entries, in
\* both engines.
LossHistoryLength ==
  \A c \in 1..4 :
     (Finished(c) /\ Len(InputsOf(c)) >= 1) =>
        /\ results[c].status = "ok"
        /\ Len(results[c].loss_history) = Len(InputsOf(c))

LossHistoryLengthWitness ==
  /\ pc = "done"
  /\ Len(all_inputs) = 3
  /\ checkpoint_steps = 2
  /\ Len(results[1].loss_history) = 3
  /\ Len(results[2].loss_history) = 3

\* C3: forward on an empty input sequence raises the assertion error in both
\* engines before anything is computed: no collaborator is called, no tensor is
\* created, no local of forward is set and no Result is returned.
EmptyInputsFailFirst ==
  Len(all_inputs) = 0 =>
     /\ \A c \in 1..2 : results[c].status \in {"none", "AssertionError"}
     /\ \A c \in 1..2 : results[c].model = <<>> /\ results[c].optimizer_state = <<>>
     /\ trace = <<>>
     /\ nextId = NParameters + NBuffers + 2
     /\ pc \in {"call", "done"}
     /\ optimizer_state = <<>> /\ updated_model = <<>> /\ loss_history = <<>>
     /\ boundary = <<>> /\ parameters_to_copy = <<>>

EmptyInputsFailFirstWitness ==
  /\ Len(all_inputs) = 0
  /\ pc = "done"
  /\ results[1].status = "AssertionError"
  /\ results[2].status = "AssertionError"

\* C4: forward(A + B) returns the same parameter values, the same optimizer
\* state values and the concatenation of the loss histories of forward(A)
\* followed by forward(B, optimizer_state = the state forward(A) returned) on
\* the model forward(A) returned, in both engines.
ResumeEqualsOneRun ==
  Finished(4) =>
     /\ results[3].status = "ok"
     /\ results[4].status = "ok"
     /\ results[FullCall].status = "ok"
     /\ Vals(results[4].model) = Vals(results[FullCall].model)
     /\ Vals(results[4].optimizer_state) = Vals(results[FullCall].optimizer_state)
     /\ HistoryValues(3) \o HistoryValues(4) = HistoryValues(FullCall)

\* the checkpointed engine, with chunk boundaries that differ between the runs:
\* A + B is cut into <<2, 1>>, A into <<1>> and B into <<2>>
ResumeEqualsOneRunWitness ==
  /\ pc = "done"
  /\ resumeEngine = "checkpoint"
  /\ checkpoint_steps = 2
  /\ Len(all_inputs) = 3
  /\ splitAt = 1
  /\ ~optimizer_state_arg.isNone
  /\ results[4].status = "ok"
  /\ Vals(results[4].optimizer_state) = Vals(results[2].optimizer_state)
  /\ Vals(results[3].optimizer_state) # Vals(get_initial_state(0))

\* the positions of the model the selector does not select
NotSelected == (1..(NParameters + NBuffers)) \ {selector[k] : k \in DOMAIN selector}

\* C5: in the checkpointed engine every tensor the selector does not select is,
\* in every model the chunk function rebuilds and in the returned model, the
\* very object of the engine's model; none of them is part of what crosses a
\* checkpoint boundary; and the engine's model is what it was before the call.
FrozenSharedByReference ==
  \A c \in 1..4 :
     EngineOf(c) = "checkpoint" =>
        /\ results[c].status = "ok" =>
              \A j \in NotSelected : results[c].model[j] = ModelOf(c)[j]
        /\ (call = c /\ pc \notin {"call", "done"}) =>
              /\ self_model = ModelOf(c)
              /\ Ids(boundary) \cap Ids(parameters_not_to_copy) = {}
              /\ \A k \in DOMAIN saved :
                    Ids(saved[k].boundary) \cap Ids(parameters_not_to_copy) = {}
              /\ pc = "internal" =>
                    \A j \in NotSelected : updated_model[j] = self_model[j]

FrozenSharedByReferenceWitness ==
  /\ pc = "done"
  /\ selector = <<1>>
  /\ Len(all_inputs) = 3
  /\ results[2].status = "ok"
  /\ results[2].model[2] = original[2]
  /\ results[2].model[NParameters + 1] = original[NParameters + 1]
  /\ results[2].model[1].id # original[1].id

\* the loss and step calls of the forward pass of the call in progress, in order
ForwardCalls ==
  SelectSeq(trace, LAMBDA e : e.op \in {"loss", "step"} /\ e.pass \in {"naive", "record"})

\* the model and optimizer state after i optimizer steps of call c, from the
\* definition of the inner loop: step i + 1 takes the loss of inputs[i] on the
\* model after i steps
RECURSIVE AfterSteps(_, _)
AfterSteps(c, i) ==
  IF i = 0
    THEN [model |-> ModelOf(c),
          optimizer_state |-> InitialOptimizerState(StateArgOf(c), 1000)]
    ELSE LET before == AfterSteps(c, i - 1)
             loss == loss_function(before.model, InputsOf(c)[i])
             stepped == OptimizerStep(before.optimizer_state, before.model, loss,
                                      get_parameters(selector, before.model), <<>>,
                                      1000 * (i + 1))
         IN [model |-> stepped.updated_model, optimizer_state |-> stepped.optimizer_state]

\* C6: in the forward pass the loss of inputs[i] is computed, then step i + 1 is
\* made with that loss, for i = 0, 1, ... in turn; and entry i of a returned loss
\* history is the loss of inputs[i] on the model after exactly i steps, also
\* across the chunk boundaries of the checkpointed engine.
LossBeforeUpdate ==
  /\ \A k \in DOMAIN ForwardCalls :
        LET e == ForwardCalls[k]
        IN IF k % 2 = 1
             THEN e.op = "loss" /\ e.idx = (k - 1) \div 2
             ELSE /\ e.op = "step"
                  /\ e.idx = ForwardCalls[k - 1].idx
                  /\ e.val = ForwardCalls[k - 1].val
  /\ \A c \in 1..4 :
        results[c].status = "ok" =>
           /\ Len(HistoryValues(c)) = Len(InputsOf(c))
           /\ \A i \in DOMAIN HistoryValues(c) :
                 HistoryValues(c)[i] =
                    loss_function(AfterSteps(c, i - 1).model, InputsOf(c)[i])

LossBeforeUpdateWitness ==
  /\ pc = "backward"
  /\ call = 2
  /\ checkpoint_steps = 2
  /\ Len(inputs) = 3
  /\ results[2].status = "ok"
  /\ Len(ForwardCalls) = 6
  /\ HistoryValues(2)[3] = loss_function(AfterSteps(2, 2).model, inputs[3])
  /\ HistoryValues(2)[3] # HistoryValues(2)[1]

\* C7: with one unit per set of checkpoint arguments kept for backward and one
\* per inner step whose graph is alive, the checkpointed engine never holds more
\* than checkpoint_steps step graphs (those of the one chunk being run) nor more
\* than ceil(N / checkpoint_steps) sets of boundary values, over forward and
\* backward.
PeakRetainedPerChunk ==
  (EngineOf(call) = "checkpoint" /\ pc \notin {"call", "done"}) =>
     /\ retained_intermediates <= Min(checkpoint_steps, Len(inputs))
     /\ retained_boundaries <= CeilDiv(Len(inputs), checkpoint_steps)
     /\ peak <= CeilDiv(Len(inputs), checkpoint_steps) + Min(checkpoint_steps, Len(inputs))
     /\ (pc = "backward" /\ saved = <<>>) =>
           retained_intermediates = 0 /\ retained_boundaries = 0

\* three inputs in chunks of one: three boundaries and never more than one graph
PeakRetainedPerChunkWitness ==
  /\ call = 2
  /\ pc = "backward"
  /\ saved = <<>>
  /\ Len(inputs) = 3
  /\ checkpoint_steps = 1
  /\ peak = 4
  /\ results[1].status = "ok"

\* the chunks the forward pass of the call in progress has entered, in order
Chunks == SelectSeq(trace, LAMBDA e : e.op = "enter" /\ e.pass = "record")

ChunkSizes == [k \in DOMAIN Chunks |-> Chunks[k].val]

\* C8: the checkpointed engine cuts N inputs into consecutive chunks of
\* min(checkpoint_steps, remaining inputs) steps: each has 1..checkpoint_steps
\* steps, only the last may have fewer than checkpoint_steps, and when the
\* forward pass is over there are ceil(N / checkpoint_steps) chunks whose sizes
\* add up to N.
ChunkPartition ==
  (EngineOf(call) = "checkpoint" /\ pc \notin {"call", "done"}) =>
     /\ \A k \in DOMAIN ChunkSizes :
           /\ ChunkSizes[k] >= 1
           /\ ChunkSizes[k] <= checkpoint_steps
           /\ ChunkSizes[k] =
                Min(checkpoint_steps, Len(inputs) - SumSeq(SubSeq(ChunkSizes, 1, k - 1)))
           /\ ChunkSizes[k] < checkpoint_steps =>
                (k - 1) * checkpoint_steps + ChunkSizes[k] = Len(inputs)
     /\ pc = "backward" =>
           /\ Len(ChunkSizes) = CeilDiv(Len(inputs), checkpoint_steps)
           /\ SumSeq(ChunkSizes) = Len(inputs)

ChunkPartitionWitness ==
  /\ call = 2
  /\ pc = "backward"
  /\ Len(inputs) = 3
  /\ checkpoint_steps = 2
  /\ ChunkSizes = <<2, 1>>

\* the input positions a pass read for a chunk, in order
ReadsOf(pass, chunk) ==
  LET reads == SelectSeq(trace, LAMBDA e : e.op = "loss" /\ e.pass = pass /\ e.chunk = chunk)
  IN [k \in DOMAIN reads |-> reads[k].idx]

IsPrefix(s, t) == Len(s) <= Len(t) /\ s = SubSeq(t, 1, Len(s))

\* C9: the chunk function is entered, in the recording pass and in the recompute
\* pass, with a step index equal to the chunk's start position, the step index
\* is the number of inputs read so far, the forward pass reads inputs[0],
\* inputs[1], ... in turn and never past the end, and the recompute pass of a
\* chunk reads the inputs its recording pass read.
StepIndexIsPosition ==
  /\ \A c \in 1..4 : results[c].status # "IndexError"
  /\ (EngineOf(call) = "checkpoint" /\ pc \notin {"call", "done"}) =>
        /\ \A i \in DOMAIN trace :
              trace[i].op = "enter" =>
                 trace[i].idx = (trace[i].chunk - 1) * checkpoint_steps
        /\ \A k \in DOMAIN ForwardCalls :
              ForwardCalls[k].idx = (k - 1) \div 2 /\ ForwardCalls[k].idx < Len(inputs)
        /\ pc = "internal" =>
              step_index = (CurrentChunk - 1) * checkpoint_steps + iterations
        /\ pc = "backward" => Len(ForwardCalls) = 2 * Len(inputs)
        /\ \A ch \in 1..Len(Chunks) :
              /\ IsPrefix(ReadsOf("recompute", ch), ReadsOf("record", ch))
              /\ (ch > Len(saved) /\ pc = "backward") =>
                    ReadsOf("recompute", ch) = ReadsOf("record", ch)

StepIndexIsPositionWitness ==
  /\ call = 2
  /\ pc = "backward"
  /\ saved = <<>>
  /\ Len(inputs) = 3
  /\ checkpoint_steps = 2
  /\ ReadsOf("record", 1) = <<0, 1>>
  /\ ReadsOf("recompute", 1) = <<0, 1>>
  /\ ReadsOf("record", 2) = <<2>>
  /\ ReadsOf("recompute", 2) = <<2>>

\* C10: a chunk function invocation is a recording pass, entered with gradients
\* off, or a recompute pass, entered with gradients on; every optimizer.step of
\* a recording pass is called with detach = True and every one of a recompute
\* pass with detach = False, the flag being the one fixed on entry.
DetachFollowsPass ==
  (EngineOf(call) = "checkpoint" /\ pc \notin {"call", "done"}) =>
     /\ \A i \in DOMAIN trace :
           /\ trace[i].op = "enter" => trace[i].pass \in {"record", "recompute"}
           /\ (trace[i].op = "step" /\ trace[i].pass = "record") => trace[i].detach
           /\ (trace[i].op = "step" /\ trace[i].pass = "recompute") => ~trace[i].detach
     /\ pc = "internal" => is_first_pass = ~grad_enabled

DetachFollowsPassWitness ==
  /\ call = 2
  /\ pc = "backward"
  /\ saved = <<>>
  /\ checkpoint_steps = 2
  /\ Len(inputs) = 3
  /\ \E i, j \in DOMAIN trace :
        /\ trace[i].op = "step" /\ trace[i].pass = "record" /\ trace[i].detach
        /\ trace[j].op = "step" /\ trace[j].pass = "recompute" /\ ~trace[j].detach
        /\ trace[i].idx = 1 /\ trace[j].idx = 1
====
